---- MODULE Spec2Model ----
(***************************************************************************)
(* A state-machine model of reference-implementation/lib/writable-stream.js *)
(* (WritableStream, WritableStreamDefaultWriter and                        *)
(* WritableStreamDefaultController).                                       *)
(*                                                                         *)
(* One stream with its controller is modelled.  Every public entry point   *)
(* and every settlement callback of a sink promise is one action; the body *)
(* of an action is the composition of the abstract operations the code     *)
(* calls, each written as an operator from a "world" record to a world     *)
(* record.  A failed assert(...) throws: the world keeps the mutations     *)
(* made before the throw, records the failing assertion in `failed`, and   *)
(* every later operator of the same handler is skipped.  An assertion      *)
(* failure is fatal: no action is enabled afterwards.                      *)
(*                                                                         *)
(* Chunks are identified with the index of the write() call that was       *)
(* accepted for them (1, 2, ...); a request promise is identified by its   *)
(* kind ("write", "close", "abort") and its index.                         *)
(***************************************************************************)
EXTENDS Integers, Sequences, FiniteSets, TLC

\* ------------------------------------------------------------------ bounds
MaxWrites == 2
MaxCloses == 2
MaxAborts == 1
MaxWriters == 2
MaxHWM == 1

VARIABLES stream, controller, writers, promises, sink, failed, lastOp

vars == <<stream, controller, writers, promises, sink, failed, lastOp>>

\* ------------------------------------------------------------ value spaces
WriteIds == 1..(MaxWrites + 1)
CloseIds == 1..(MaxCloses + 1)
AbortIds == 1..(MaxAborts + 1)
WriterIds == 1..MaxWriters

\* The sentinel 'close' of the controller's queue (chunks are 1, 2, ...).
CloseSentinel == 0

\* A promise: pending, resolved, rejected with e, or not created yet.
Absent == [s |-> "absent", e |-> "none"]
Pending == [s |-> "pending", e |-> "none"]
Resolved == [s |-> "resolved", e |-> "none"]
Rejected(e) == [s |-> "rejected", e |-> e]
IsSettled(p) == p.s \in {"resolved", "rejected"}

\* What a strategy's size(chunk) can do: return a valid size, throw, or
\* return a size EnqueueValueWithSize refuses.
ChunkSizes == {0, 1}
SizeOutcomes == ChunkSizes \cup {-1, -2}
SizeThrows == -1
SizeInvalid == -2

\* ------------------------------------------------------------------ worlds
World ==
  [stream |-> stream, controller |-> controller, writers |-> writers,
   promises |-> promises, sink |-> sink, failed |-> failed,
   ret |-> [res |-> "returned", e |-> "none"]]

Ok(s) == s.failed = "none"

\* assert(cond): throws when cond is false.
Require(s, cond, name) ==
  IF Ok(s) /\ ~cond THEN [s EXCEPT !.failed = name] ELSE s

\* return / throw of a public method
Return(s, res, e) ==
  IF Ok(s) THEN [s EXCEPT !.ret = [res |-> res, e |-> e]] ELSE s

\* _resolve / _reject of a request promise (a no-op on a settled promise).
SettleRequest(s, kind, id, val) ==
  IF ~Ok(s) THEN s
  ELSE IF s.promises[kind][id].s = "pending"
  THEN [s EXCEPT !.promises[kind][id] = val,
                 !.promises.order = Append(@, <<kind, id>>)]
  ELSE s

\* ------------------------------------------------------- queue-with-sizes
EnqueueValueWithSize(queue, value, size) ==
  Append(queue, [value |-> value, size |-> size])

DequeueValue(queue) == IF queue = <<>> THEN queue ELSE Tail(queue)

PeekQueueValue(queue) == Head(queue).value

RECURSIVE GetTotalQueueSize(_)
GetTotalQueueSize(queue) ==
  IF queue = <<>> THEN 0 ELSE Head(queue).size + GetTotalQueueSize(Tail(queue))

\* ------------------------------------------------ writer promise helpers
defaultWriterClosedPromiseReject(s, w, reason) ==
  IF ~Ok(s) THEN s
  ELSE IF s.writers[w].closed.s # "pending"
  THEN [s EXCEPT !.failed = "defaultWriterClosedPromiseReject"]
  ELSE [s EXCEPT !.writers[w].closed = Rejected(reason)]

defaultWriterClosedPromiseResetToRejected(s, w, reason) ==
  IF ~Ok(s) THEN s
  ELSE IF s.writers[w].closed.s = "pending"
  THEN [s EXCEPT !.failed = "defaultWriterClosedPromiseResetToRejected"]
  ELSE [s EXCEPT !.writers[w].closed = Rejected(reason)]

defaultWriterClosedPromiseResolve(s, w) ==
  IF ~Ok(s) THEN s
  ELSE IF s.writers[w].closed.s # "pending"
  THEN [s EXCEPT !.failed = "defaultWriterClosedPromiseResolve"]
  ELSE [s EXCEPT !.writers[w].closed = Resolved]

defaultWriterReadyPromiseReject(s, w, reason) ==
  IF ~Ok(s) THEN s
  ELSE IF s.writers[w].ready.s # "pending"
  THEN [s EXCEPT !.failed = "defaultWriterReadyPromiseReject"]
  ELSE [s EXCEPT !.writers[w].ready = Rejected(reason)]

defaultWriterReadyPromiseReset(s, w) ==
  IF ~Ok(s) THEN s
  ELSE IF s.writers[w].ready.s = "pending"
  THEN [s EXCEPT !.failed = "defaultWriterReadyPromiseReset"]
  ELSE [s EXCEPT !.writers[w].ready = Pending]

defaultWriterReadyPromiseResetToRejected(s, w, reason) ==
  IF ~Ok(s) THEN s
  ELSE IF s.writers[w].ready.s = "pending"
  THEN [s EXCEPT !.failed = "defaultWriterReadyPromiseResetToRejected"]
  ELSE [s EXCEPT !.writers[w].ready = Rejected(reason)]

defaultWriterReadyPromiseResolve(s, w) ==
  IF ~Ok(s) THEN s
  ELSE IF s.writers[w].ready.s # "pending"
  THEN [s EXCEPT !.failed = "defaultWriterReadyPromiseResolve"]
  ELSE [s EXCEPT !.writers[w].ready = Resolved]

\* ------------------------------------------------- stream abstract operations
IsWritableStreamLocked(s) == s.stream.writer # 0

WritableStreamIsReadyForWrites(s) ==
  /\ s.stream.state = "writable"
  /\ s.stream.pendingAbortRequest = 0
  /\ s.stream.closeRequest = 0
  /\ s.stream.backpressure = TRUE

WritableStreamHasOperationMarkedInflight(s) ==
  ~(s.stream.inflightWriteRequest = 0 /\ s.stream.inflightCloseRequest = 0)

WritableStreamDefaultWriterEnsureReadyPromiseRejectedWith(s, error, isPending) ==
  IF ~Ok(s) \/ s.stream.writer = 0 THEN s
  ELSE IF isPending
  THEN defaultWriterReadyPromiseReject(s, s.stream.writer, error)
  ELSE defaultWriterReadyPromiseResetToRejected(s, s.stream.writer, error)

WritableStreamRejectClosedPromiseIfAny(s) ==
  IF ~Ok(s) \/ s.stream.writer = 0 THEN s
  ELSE defaultWriterClosedPromiseReject(s, s.stream.writer, s.stream.storedError)

WritableStreamRejectPendingAbortRequest(s) ==
  IF ~Ok(s) \/ s.stream.pendingAbortRequest = 0 THEN s
  ELSE [SettleRequest(s, "abort", s.stream.pendingAbortRequest,
                      Rejected(s.stream.storedError))
          EXCEPT !.stream.pendingAbortRequest = 0]

\* Mutant of RejectEach: the requests are rejected last first.
RECURSIVE RejectEach_LastFirst(_, _, _)
RejectEach_LastFirst(s, requests, e) ==
  IF requests = <<>> THEN s
  ELSE SettleRequest(RejectEach_LastFirst(s, Tail(requests), e),
                     "write", Head(requests), Rejected(e))

RECURSIVE RejectEach(_, _, _)
RejectEach(s, requests, e) ==
  IF requests = <<>> THEN s
  ELSE RejectEach(SettleRequest(s, "write", Head(requests), Rejected(e)),
                  Tail(requests), e)

WritableStreamRejectPromisesInReactionToError(s) ==
  IF ~Ok(s) THEN s
  ELSE
    LET s0 == Require(s, s.stream.state = "errored",
                      "RejectPromisesInReactionToError:state")
        storedError == s.stream.storedError
        s1 == IF Ok(s0)
              THEN [RejectEach(s0, s0.stream.writeRequests, storedError)
                      EXCEPT !.stream.writeRequests = <<>>]
              ELSE s0
        s2 == IF Ok(s1) /\ s1.stream.closeRequest # 0
              THEN LET a == Require(s1, s1.stream.inflightCloseRequest = 0,
                                    "RejectPromisesInReactionToError:inflightClose")
                   IN IF Ok(a)
                      THEN [SettleRequest(a, "close", a.stream.closeRequest,
                                          Rejected(storedError))
                              EXCEPT !.stream.closeRequest = 0]
                      ELSE a
              ELSE s1
    IN WritableStreamRejectClosedPromiseIfAny(s2)

\* Mutant of WritableStreamFinishAbort: the stream is marked errored but the
\* pending requests are not rejected.
WritableStreamFinishAbort_NoReject(s) ==
  IF ~Ok(s) THEN s
  ELSE [s EXCEPT !.stream.state = "errored", !.stream.storedError = "Aborted"]

WritableStreamFinishAbort(s) ==
  IF ~Ok(s) THEN s
  ELSE WritableStreamRejectPromisesInReactionToError(
         [s EXCEPT !.stream.state = "errored", !.stream.storedError = "Aborted"])

\* Mutant of WritableStreamUpdateBackpressure: the new signal is stored but
\* the writer's ready promise is left as it is.
WritableStreamUpdateBackpressure_NoSignal(s, backpressure) ==
  IF ~Ok(s) THEN s
  ELSE
    LET s0 == Require(s, s.stream.state = "writable", "UpdateBackpressure:state")
        s1 == Require(s0, s.stream.closeRequest = 0, "UpdateBackpressure:closeRequest")
    IN IF Ok(s1) THEN [s1 EXCEPT !.stream.backpressure = backpressure] ELSE s1

WritableStreamUpdateBackpressure(s, backpressure) ==
  IF ~Ok(s) THEN s
  ELSE
    LET s0 == Require(s, s.stream.state = "writable", "UpdateBackpressure:state")
        s1 == Require(s0, s.stream.closeRequest = 0, "UpdateBackpressure:closeRequest")
        w == s.stream.writer
        s2 == IF Ok(s1) /\ w # 0 /\ backpressure # s.stream.backpressure
              THEN IF backpressure
                   THEN defaultWriterReadyPromiseReset(s1, w)
                   ELSE defaultWriterReadyPromiseResolve(s1, w)
              ELSE s1
    IN IF Ok(s2) THEN [s2 EXCEPT !.stream.backpressure = backpressure] ELSE s2

WritableStreamAddWriteRequest(s) ==
  IF ~Ok(s) THEN s
  ELSE
    LET s0 == Require(s, IsWritableStreamLocked(s), "AddWriteRequest:locked")
        s1 == Require(s0, s.stream.state = "writable", "AddWriteRequest:state")
        k == s.promises.nWrite + 1
    IN IF Ok(s1)
       THEN [s1 EXCEPT !.promises.write[k] = Pending,
                       !.promises.nWrite = k,
                       !.stream.writeRequests = Append(@, k)]
       ELSE s1

WritableStreamMarkCloseRequestInflight(s) ==
  IF ~Ok(s) THEN s
  ELSE
    LET s0 == Require(s, s.stream.inflightCloseRequest = 0,
                      "MarkCloseRequestInflight:inflightCloseRequest")
        s1 == Require(s0, s.stream.closeRequest # 0,
                      "MarkCloseRequestInflight:closeRequest")
    IN IF Ok(s1)
       THEN [s1 EXCEPT !.stream.inflightCloseRequest = s.stream.closeRequest,
                       !.stream.closeRequest = 0]
       ELSE s1

\* Mutant of WritableStreamMarkFirstWriteRequestInflight: the request is
\* copied to the in-flight slot and left in writeRequests.
WritableStreamMarkFirstWriteRequestInflight_KeepsRequest(s) ==
  IF ~Ok(s) THEN s
  ELSE
    LET s0 == Require(s, s.stream.inflightWriteRequest = 0,
                      "MarkFirstWriteRequestInflight:inflightWriteRequest")
        s1 == Require(s0, s.stream.writeRequests # <<>>,
                      "MarkFirstWriteRequestInflight:writeRequests")
    IN IF Ok(s1)
       THEN [s1 EXCEPT !.stream.inflightWriteRequest = Head(s.stream.writeRequests)]
       ELSE s1

WritableStreamMarkFirstWriteRequestInflight(s) ==
  IF ~Ok(s) THEN s
  ELSE
    LET s0 == Require(s, s.stream.inflightWriteRequest = 0,
                      "MarkFirstWriteRequestInflight:inflightWriteRequest")
        s1 == Require(s0, s.stream.writeRequests # <<>>,
                      "MarkFirstWriteRequestInflight:writeRequests")
    IN IF Ok(s1)
       THEN [s1 EXCEPT !.stream.inflightWriteRequest = Head(s.stream.writeRequests),
                       !.stream.writeRequests = Tail(@)]
       ELSE s1

\* --------------------------------------------- controller abstract operations
WritableStreamDefaultControllerGetDesiredSize(s) ==
  s.controller.strategyHWM - GetTotalQueueSize(s.controller.queue)

WritableStreamDefaultControllerGetBackpressure(s) ==
  WritableStreamDefaultControllerGetDesiredSize(s) <= 0

\* Clears the queue and calls sink.abort; the promise returned settles the
\* request promise <<"abort", a>> when sink.abort settles.
WritableStreamDefaultControllerAbort(s, a) ==
  IF ~Ok(s) THEN s
  ELSE [s EXCEPT !.controller.queue = <<>>,
                 !.sink.abortCalls = @ + 1,
                 !.sink.abortPending = @ \cup {a}]

WritableStreamDefaultControllerProcessClose(s) ==
  IF ~Ok(s) THEN s
  ELSE
    LET s0 == WritableStreamMarkCloseRequestInflight(s)
        s1 == IF Ok(s0)
              THEN [s0 EXCEPT !.controller.queue = DequeueValue(@)]
              ELSE s0
        s2 == Require(s1, s1.controller.queue = <<>>, "ProcessClose:queue")
    IN IF Ok(s2)
       THEN [s2 EXCEPT !.sink.closeCalls = @ + 1,
                       !.sink.closePending = @ + 1]
       ELSE s2

WritableStreamDefaultControllerProcessWrite(s, chunk) ==
  IF ~Ok(s) THEN s
  ELSE
    LET s0 == WritableStreamMarkFirstWriteRequestInflight(s)
    IN IF Ok(s0)
       THEN [s0 EXCEPT !.sink.writes = Append(@, chunk),
                       !.sink.writePending = @ \cup {chunk}]
       ELSE s0

\* Mutant of WritableStreamDefaultControllerAdvanceQueueIfNeeded: the queue
\* is advanced whether or not sink.start has fulfilled.
WritableStreamDefaultControllerAdvanceQueueIfNeeded_NoStartGate(s) ==
  IF ~Ok(s) THEN s
  ELSE IF s.stream.state \in {"closed", "errored"} THEN s
  ELSE IF s.stream.inflightWriteRequest # 0 THEN s
  ELSE IF Len(s.controller.queue) = 0 THEN s
  ELSE IF PeekQueueValue(s.controller.queue) = CloseSentinel
  THEN WritableStreamDefaultControllerProcessClose(s)
  ELSE WritableStreamDefaultControllerProcessWrite(s, PeekQueueValue(s.controller.queue))

WritableStreamDefaultControllerAdvanceQueueIfNeeded(s) ==
  IF ~Ok(s) THEN s
  ELSE IF s.stream.state \in {"closed", "errored"} THEN s
  ELSE IF s.controller.started = FALSE THEN s
  ELSE IF s.stream.inflightWriteRequest # 0 THEN s
  ELSE IF Len(s.controller.queue) = 0 THEN s
  ELSE IF PeekQueueValue(s.controller.queue) = CloseSentinel
  THEN WritableStreamDefaultControllerProcessClose(s)
  ELSE WritableStreamDefaultControllerProcessWrite(s, PeekQueueValue(s.controller.queue))

WritableStreamDefaultControllerError(s, e) ==
  IF ~Ok(s) THEN s
  ELSE
    LET s0 == Require(s, s.stream.state = "writable", "ControllerError:state")
        isReadyForWrites == WritableStreamIsReadyForWrites(s)
        s1 == IF Ok(s0)
              THEN [s0 EXCEPT !.stream.state = "errored", !.stream.storedError = e]
              ELSE s0
        s2 == IF Ok(s1) /\ s1.stream.pendingAbortRequest = 0
              THEN WritableStreamDefaultWriterEnsureReadyPromiseRejectedWith(
                     s1, e, isReadyForWrites)
              ELSE s1
        s3 == IF Ok(s2) THEN [s2 EXCEPT !.controller.queue = <<>>] ELSE s2
    IN IF Ok(s3) /\ ~WritableStreamHasOperationMarkedInflight(s3)
       THEN WritableStreamRejectPromisesInReactionToError(s3)
       ELSE s3

WritableStreamDefaultControllerErrorIfNeeded(s, e) ==
  IF Ok(s) /\ s.stream.state = "writable"
  THEN WritableStreamDefaultControllerError(s, e)
  ELSE s

WritableStreamDefaultControllerClose(s) ==
  IF ~Ok(s) THEN s
  ELSE WritableStreamDefaultControllerAdvanceQueueIfNeeded(
         [s EXCEPT !.controller.queue = EnqueueValueWithSize(@, CloseSentinel, 0)])

\* size is what strategySize(chunk) does for this chunk (see SizeOutcomes).
WritableStreamDefaultControllerWrite(s, chunk, size) ==
  IF ~Ok(s) THEN s
  ELSE IF size = SizeThrows
  THEN WritableStreamDefaultControllerErrorIfNeeded(s, "SizeError")
  ELSE IF size = SizeInvalid
  THEN WritableStreamDefaultControllerErrorIfNeeded(s, "RangeError")
  ELSE
    LET s0 == [s EXCEPT !.controller.queue = EnqueueValueWithSize(@, chunk, size)]
        s1 == IF s0.stream.state = "writable" /\ s0.stream.closeRequest = 0
              THEN WritableStreamUpdateBackpressure(
                     s0, WritableStreamDefaultControllerGetBackpressure(s0))
              ELSE s0
    IN WritableStreamDefaultControllerAdvanceQueueIfNeeded(s1)

\* ------------------------------------------------ settlement notifications
WritableStreamFinishInflightWrite(s) ==
  IF ~Ok(s) THEN s
  ELSE
    LET s0 == Require(s, s.stream.inflightWriteRequest # 0, "FinishInflightWrite:inflight")
        s1 == IF Ok(s0)
              THEN [SettleRequest(s0, "write", s0.stream.inflightWriteRequest, Resolved)
                      EXCEPT !.stream.inflightWriteRequest = 0]
              ELSE s0
    IN IF ~Ok(s1) THEN s1
       ELSE IF s1.stream.state = "errored"
       THEN WritableStreamRejectPromisesInReactionToError(
              WritableStreamRejectPendingAbortRequest(s1))
       ELSE IF s1.stream.pendingAbortRequest = 0 THEN s1
       ELSE LET s2 == WritableStreamFinishAbort(s1)
                abortRequest == s1.stream.pendingAbortRequest
            IN IF Ok(s2)
               THEN WritableStreamDefaultControllerAbort(
                      [s2 EXCEPT !.stream.pendingAbortRequest = 0], abortRequest)
               ELSE s2

\* Mutant of WritableStreamFinishInflightWriteWithError: the rejection reason
\* is stored whether or not the stream is already errored.
WritableStreamFinishInflightWriteWithError_Overwrites(s, reason) ==
  IF ~Ok(s) THEN s
  ELSE
    LET s0 == Require(s, s.stream.inflightWriteRequest # 0,
                      "FinishInflightWriteWithError:inflight")
        s1 == IF Ok(s0)
              THEN [SettleRequest(s0, "write", s0.stream.inflightWriteRequest,
                                  Rejected(reason))
                      EXCEPT !.stream.inflightWriteRequest = 0]
              ELSE s0
        wasAborted == s1.stream.pendingAbortRequest # 0
        isReadyForWrites == WritableStreamIsReadyForWrites(s1)
        s2 == IF ~Ok(s1) THEN s1
              ELSE
                LET b == [s1 EXCEPT !.stream.state = "errored",
                                    !.stream.storedError = reason]
                    c == IF ~wasAborted /\ s1.stream.state = "writable"
                         THEN WritableStreamDefaultWriterEnsureReadyPromiseRejectedWith(
                                b, reason, isReadyForWrites)
                         ELSE b
                IN WritableStreamRejectPendingAbortRequest(c)
    IN WritableStreamRejectPromisesInReactionToError(s2)

WritableStreamFinishInflightWriteWithError(s, reason) ==
  IF ~Ok(s) THEN s
  ELSE
    LET s0 == Require(s, s.stream.inflightWriteRequest # 0,
                      "FinishInflightWriteWithError:inflight")
        s1 == IF Ok(s0)
              THEN [SettleRequest(s0, "write", s0.stream.inflightWriteRequest,
                                  Rejected(reason))
                      EXCEPT !.stream.inflightWriteRequest = 0]
              ELSE s0
        state == s1.stream.state
        wasAborted == s1.stream.pendingAbortRequest # 0
        isReadyForWrites == WritableStreamIsReadyForWrites(s1)
        s2 == IF ~Ok(s1) THEN s1
              ELSE IF state = "errored"
              THEN WritableStreamRejectPendingAbortRequest(s1)
              ELSE
                LET a == Require(s1, state = "writable",
                                 "FinishInflightWriteWithError:state")
                    b == IF Ok(a)
                         THEN [a EXCEPT !.stream.state = "errored",
                                        !.stream.storedError = reason]
                         ELSE a
                    c == IF Ok(b) /\ ~wasAborted
                         THEN WritableStreamDefaultWriterEnsureReadyPromiseRejectedWith(
                                b, reason, isReadyForWrites)
                         ELSE b
                IN WritableStreamRejectPendingAbortRequest(c)
    IN WritableStreamRejectPromisesInReactionToError(s2)

WritableStreamFinishInflightClose(s) ==
  IF ~Ok(s) THEN s
  ELSE
    LET s0 == Require(s, s.stream.inflightCloseRequest # 0, "FinishInflightClose:inflight")
        s1 == IF Ok(s0)
              THEN [SettleRequest(s0, "close", s0.stream.inflightCloseRequest, Resolved)
                      EXCEPT !.stream.inflightCloseRequest = 0]
              ELSE s0
        state == s1.stream.state
        wasAborted == s1.stream.pendingAbortRequest # 0
    IN IF ~Ok(s1) THEN s1
       ELSE IF state = "errored"
       THEN WritableStreamRejectClosedPromiseIfAny(
              WritableStreamRejectPendingAbortRequest(s1))
       ELSE
         LET s2 == Require(s1, state = "writable", "FinishInflightClose:state")
         IN IF ~Ok(s2) THEN s2
            ELSE IF ~wasAborted
            THEN LET s3 == IF s2.stream.writer # 0
                           THEN defaultWriterClosedPromiseResolve(s2, s2.stream.writer)
                           ELSE s2
                 IN IF Ok(s3) THEN [s3 EXCEPT !.stream.state = "closed"] ELSE s3
            ELSE WritableStreamRejectClosedPromiseIfAny(
                   [SettleRequest(s2, "abort", s2.stream.pendingAbortRequest, Resolved)
                      EXCEPT !.stream.pendingAbortRequest = 0,
                             !.stream.state = "errored",
                             !.stream.storedError = "AbortedButClosed"])

WritableStreamFinishInflightCloseWithError(s, reason) ==
  IF ~Ok(s) THEN s
  ELSE
    LET s0 == Require(s, s.stream.inflightCloseRequest # 0,
                      "FinishInflightCloseWithError:inflight")
        s1 == IF Ok(s0)
              THEN [SettleRequest(s0, "close", s0.stream.inflightCloseRequest,
                                  Rejected(reason))
                      EXCEPT !.stream.inflightCloseRequest = 0]
              ELSE s0
        state == s1.stream.state
        wasAborted == s1.stream.pendingAbortRequest # 0
        s2 == IF ~Ok(s1) THEN s1
              ELSE IF state = "errored"
              THEN WritableStreamRejectPendingAbortRequest(s1)
              ELSE
                LET a == Require(s1, state = "writable",
                                 "FinishInflightCloseWithError:state")
                    b == IF Ok(a)
                         THEN [a EXCEPT !.stream.state = "errored",
                                        !.stream.storedError = reason]
                         ELSE a
                    c == IF Ok(b) /\ ~wasAborted
                         THEN WritableStreamDefaultWriterEnsureReadyPromiseRejectedWith(
                                b, reason, FALSE)
                         ELSE b
                IN WritableStreamRejectPendingAbortRequest(c)
    IN WritableStreamRejectClosedPromiseIfAny(s2)

\* ------------------------------------------------------------ stream: abort
WritableStreamAbort(s) ==
  IF ~Ok(s) THEN s
  ELSE IF s.stream.state = "closed" THEN Return(s, "resolved", "none")
  ELSE IF s.stream.state = "errored" THEN Return(s, "rejected", s.stream.storedError)
  ELSE IF s.stream.pendingAbortRequest # 0 THEN Return(s, "rejected", "Aborted")
  ELSE
    LET s0 == Require(s, s.stream.state = "writable", "Abort:state")
        s1 == WritableStreamDefaultWriterEnsureReadyPromiseRejectedWith(
                s0, "Aborted", WritableStreamIsReadyForWrites(s0))
        a == s.promises.nAbort + 1
        s2 == IF Ok(s1)
              THEN [s1 EXCEPT !.promises.abort[a] = Pending, !.promises.nAbort = a]
              ELSE s1
    IN IF ~Ok(s2) THEN s2
       ELSE IF ~WritableStreamHasOperationMarkedInflight(s2)
       THEN Return(WritableStreamDefaultControllerAbort(WritableStreamFinishAbort(s2), a),
                   "promise", "none")
       ELSE Return([s2 EXCEPT !.stream.pendingAbortRequest = a], "promise", "none")

\* ------------------------------------------------------------------ writer
\* new WritableStreamDefaultWriter(stream), w being the new object.
AcquireWritableStreamDefaultWriter(s, w) ==
  IF ~Ok(s) THEN s
  ELSE IF IsWritableStreamLocked(s) THEN Return(s, "threw", "TypeError")
  ELSE
    LET state == s.stream.state
        ready == IF state = "writable"
                 THEN IF s.stream.pendingAbortRequest # 0
                      THEN Rejected(s.stream.storedError)
                      ELSE IF s.stream.closeRequest = 0 /\ s.stream.backpressure = TRUE
                      THEN Pending
                      ELSE Resolved
                 ELSE IF state = "closed" THEN Resolved
                 ELSE Rejected(s.stream.storedError)
        closed == IF state = "writable" THEN Pending
                  ELSE IF state = "closed" THEN Resolved
                  ELSE Rejected(s.stream.storedError)
    IN Return([s EXCEPT !.stream.writer = w,
                        !.writers[w] = [made |-> TRUE, owner |-> TRUE,
                                        ready |-> ready, closed |-> closed]],
              "returned", "none")

\* Mutant of WritableStreamDefaultWriterRelease: the writer's back-reference
\* to the stream is not cleared.
WritableStreamDefaultWriterRelease_KeepsOwner(s, w) ==
  IF ~Ok(s) THEN s
  ELSE
    LET s0 == Require(s, s.writers[w].owner, "WriterRelease:stream")
        s1 == Require(s0, s.stream.writer = w, "WriterRelease:writer")
        state == s.stream.state
        s2 == WritableStreamDefaultWriterEnsureReadyPromiseRejectedWith(
                s1, "Released", WritableStreamIsReadyForWrites(s1))
        s3 == IF state = "writable" \/ WritableStreamHasOperationMarkedInflight(s2)
              THEN defaultWriterClosedPromiseReject(s2, w, "Released")
              ELSE defaultWriterClosedPromiseResetToRejected(s2, w, "Released")
    IN IF Ok(s3) THEN [s3 EXCEPT !.stream.writer = 0] ELSE s3

WritableStreamDefaultWriterRelease(s, w) ==
  IF ~Ok(s) THEN s
  ELSE
    LET s0 == Require(s, s.writers[w].owner, "WriterRelease:stream")
        s1 == Require(s0, s.stream.writer = w, "WriterRelease:writer")
        state == s.stream.state
        s2 == WritableStreamDefaultWriterEnsureReadyPromiseRejectedWith(
                s1, "Released", WritableStreamIsReadyForWrites(s1))
        s3 == IF state = "writable" \/ WritableStreamHasOperationMarkedInflight(s2)
              THEN defaultWriterClosedPromiseReject(s2, w, "Released")
              ELSE defaultWriterClosedPromiseResetToRejected(s2, w, "Released")
    IN IF Ok(s3)
       THEN [s3 EXCEPT !.stream.writer = 0, !.writers[w].owner = FALSE]
       ELSE s3

WritableStreamDefaultWriterWrite(s, w, size) ==
  IF ~Ok(s) THEN s
  ELSE
    LET s0 == Require(s, s.writers[w].owner, "WriterWrite:stream")
        s1 == Require(s0, s.stream.closeRequest = 0, "WriterWrite:closeRequest")
    IN IF ~Ok(s1) THEN s1
       ELSE IF s1.stream.state \in {"closed", "errored"}
       THEN Return(s1, "rejected", "TypeError")
       ELSE IF s1.stream.pendingAbortRequest # 0
       THEN Return(s1, "rejected", "Aborted")
       ELSE
         LET s2 == WritableStreamAddWriteRequest(s1)
         IN Return(WritableStreamDefaultControllerWrite(s2, s2.promises.nWrite, size),
                   "promise", "none")

WritableStreamDefaultWriterClose(s, w) ==
  IF ~Ok(s) THEN s
  ELSE
    LET s0 == Require(s, s.writers[w].owner, "WriterClose:stream")
    IN IF ~Ok(s0) THEN s0
       ELSE IF s0.stream.state \in {"closed", "errored"}
       THEN Return(s0, "rejected", "TypeError")
       ELSE IF s0.stream.pendingAbortRequest # 0
       THEN Return(s0, "rejected", "Aborted")
       ELSE
         LET s1 == Require(s0, s0.stream.closeRequest = 0, "WriterClose:closeRequest")
             c == s.promises.nClose + 1
             s2 == IF Ok(s1)
                   THEN [s1 EXCEPT !.promises.close[c] = Pending,
                                   !.promises.nClose = c,
                                   !.stream.closeRequest = c]
                   ELSE s1
             s3 == IF Ok(s2) /\ s2.stream.backpressure = TRUE
                   THEN defaultWriterReadyPromiseResolve(s2, w)
                   ELSE s2
         IN Return(WritableStreamDefaultControllerClose(s3), "promise", "none")

WritableStreamDefaultWriterCloseWithErrorPropagation(s, w) ==
  IF ~Ok(s) THEN s
  ELSE
    LET s0 == Require(s, s.writers[w].owner, "WriterCloseWithErrorPropagation:stream")
        state == s.stream.state
    IN IF ~Ok(s0) THEN s0
       ELSE IF (state = "writable" /\ s.stream.closeRequest # 0) \/ state = "closed"
       THEN Return(s0, "resolved", "none")
       ELSE IF state = "errored"
       THEN Return(s0, "rejected", s.stream.storedError)
       ELSE WritableStreamDefaultWriterClose(s0, w)

\* ------------------------------------------------------- public methods
\* "null" stands for the null the getter returns.
WritableStreamDefaultWriterGetDesiredSize(s) ==
  IF s.stream.state = "errored" \/ s.stream.pendingAbortRequest # 0 THEN "null"
  ELSE IF s.stream.state = "closed" THEN 0
  ELSE WritableStreamDefaultControllerGetDesiredSize(s)

\* Mutant of StreamAbortMethod: the stream-level abort() does not look at
\* the lock.
StreamAbortMethod_NoLockCheck(s) == WritableStreamAbort(s)

\* WritableStream.prototype.abort
StreamAbortMethod(s) ==
  IF IsWritableStreamLocked(s) THEN Return(s, "rejected", "TypeError")
  ELSE WritableStreamAbort(s)

\* WritableStreamDefaultWriter.prototype.abort
WriterAbortMethod(s, w) ==
  IF ~s.writers[w].owner THEN Return(s, "rejected", "TypeError")
  ELSE WritableStreamAbort(s)

\* WritableStreamDefaultWriter.prototype.close
WriterCloseMethod(s, w) ==
  IF ~s.writers[w].owner THEN Return(s, "rejected", "TypeError")
  ELSE IF s.stream.closeRequest # 0 THEN Return(s, "rejected", "TypeError")
  ELSE WritableStreamDefaultWriterClose(s, w)

\* WritableStreamDefaultWriter.prototype.releaseLock
WriterReleaseLockMethod(s, w) ==
  IF ~s.writers[w].owner THEN Return(s, "returned", "none")
  ELSE WritableStreamDefaultWriterRelease(
         Require(s, s.stream.writer # 0, "releaseLock:writer"), w)

\* WritableStreamDefaultWriter.prototype.write
WriterWriteMethod(s, w, size) ==
  IF ~s.writers[w].owner THEN Return(s, "rejected", "TypeError")
  ELSE IF s.stream.closeRequest # 0 THEN Return(s, "rejected", "TypeError")
  ELSE WritableStreamDefaultWriterWrite(s, w, size)

\* WritableStreamDefaultController.prototype.error
ControllerErrorMethod(s, e) ==
  IF s.stream.state \in {"closed", "errored"} THEN Return(s, "threw", "TypeError")
  ELSE WritableStreamDefaultControllerError(s, e)

\* ------------------------------------------------ sink promise callbacks
\* WritableStreamDefaultControllerStart: start fulfilled / rejected with r
OnStartFulfilled(s) ==
  WritableStreamDefaultControllerAdvanceQueueIfNeeded(
    [s EXCEPT !.controller.started = TRUE])

OnStartRejected(s, r) == WritableStreamDefaultControllerErrorIfNeeded(s, r)

\* Mutant of OnSinkWriteFulfilled: the fulfilled record is not dequeued.
OnSinkWriteFulfilled_NoDequeue(s) ==
  LET s0 == WritableStreamFinishInflightWrite(s)
  IN IF ~Ok(s0) \/ s0.stream.state = "errored" THEN s0
     ELSE
       LET s1 == Require(s0, s0.stream.state = "writable", "ProcessWrite:state")
           s3 == IF Ok(s1) /\ s1.stream.closeRequest = 0
                 THEN WritableStreamUpdateBackpressure(
                        s1, WritableStreamDefaultControllerGetBackpressure(s1))
                 ELSE s1
       IN WritableStreamDefaultControllerAdvanceQueueIfNeeded(s3)

\* WritableStreamDefaultControllerProcessWrite: sink.write fulfilled
OnSinkWriteFulfilled(s) ==
  LET s0 == WritableStreamFinishInflightWrite(s)
  IN IF ~Ok(s0) \/ s0.stream.state = "errored" THEN s0
     ELSE
       LET s1 == Require(s0, s0.stream.state = "writable", "ProcessWrite:state")
           s2 == IF Ok(s1)
                 THEN [s1 EXCEPT !.controller.queue = DequeueValue(@)]
                 ELSE s1
           s3 == IF Ok(s2) /\ s2.stream.closeRequest = 0
                 THEN WritableStreamUpdateBackpressure(
                        s2, WritableStreamDefaultControllerGetBackpressure(s2))
                 ELSE s2
       IN WritableStreamDefaultControllerAdvanceQueueIfNeeded(s3)

\* WritableStreamDefaultControllerProcessWrite: sink.write rejected
OnSinkWriteRejected(s, reason) ==
  LET wasErrored == s.stream.state = "errored"
      s0 == WritableStreamFinishInflightWriteWithError(s, reason)
      s1 == Require(s0, s0.stream.state = "errored", "ProcessWrite:errored")
  IN IF Ok(s1) /\ ~wasErrored
     THEN [s1 EXCEPT !.controller.queue = <<>>]
     ELSE s1

\* ---------------------------------------------------------------- the machine
\* The state after `new WritableStream(sink, {size, highWaterMark})`: the
\* controller has published the initial backpressure and sink.start has
\* been called and has not settled.
Init ==
  \E hwm \in 0..MaxHWM :
    /\ stream = [state |-> "writable", storedError |-> "undefined", writer |-> 0,
                 writeRequests |-> <<>>, inflightWriteRequest |-> 0,
                 closeRequest |-> 0, inflightCloseRequest |-> 0,
                 pendingAbortRequest |-> 0, backpressure |-> (hwm <= 0)]
    /\ controller = [queue |-> <<>>, started |-> FALSE, strategyHWM |-> hwm]
    /\ writers = [w \in WriterIds |->
                    [made |-> FALSE, owner |-> FALSE, ready |-> Absent, closed |-> Absent]]
    /\ promises = [write |-> [k \in WriteIds |-> Absent],
                   close |-> [k \in CloseIds |-> Absent],
                   abort |-> [k \in AbortIds |-> Absent],
                   order |-> <<>>, nWrite |-> 0, nClose |-> 0, nAbort |-> 0]
    /\ sink = [startPending |-> TRUE, writePending |-> {}, closePending |-> 0,
               abortPending |-> {}, writes |-> <<>>, fulfilled |-> {},
               closeCalls |-> 0, abortCalls |-> 0]
    /\ failed = "none"
    /\ lastOp = [op |-> "new", w |-> 0, res |-> "returned", e |-> "none"]

\* The step that takes the machine to world r by operation op of writer w.
Step(r, op, w) ==
  /\ r.promises.nWrite <= MaxWrites
  /\ r.promises.nClose <= MaxCloses
  /\ r.promises.nAbort <= MaxAborts
  /\ stream' = r.stream
  /\ controller' = r.controller
  /\ writers' = r.writers
  /\ promises' = r.promises
  /\ sink' = r.sink
  /\ failed' = r.failed
  /\ lastOp' = IF Ok(r)
               THEN [op |-> op, w |-> w, res |-> r.ret.res, e |-> r.ret.e]
               ELSE [op |-> op, w |-> w, res |-> "threw", e |-> "AssertionError"]

\* The handler's result is computed once and then committed.
Commit(result, op, w) == \E r \in {result} : Step(r, op, w)

NextWriter == Cardinality({w \in WriterIds : writers[w].made}) + 1

GetWriter ==
  /\ failed = "none"
  /\ NextWriter \in WriterIds
  /\ Commit(AcquireWritableStreamDefaultWriter(World, NextWriter), "getWriter",
            NextWriter)

StreamAbort ==
  /\ failed = "none"
  /\ Commit(StreamAbortMethod(World), "stream.abort", 0)

WriterWrite(w, size) ==
  /\ failed = "none"
  /\ writers[w].made
  /\ Commit(WriterWriteMethod(World, w, size), "write", w)

WriterClose(w) ==
  /\ failed = "none"
  /\ writers[w].made
  /\ Commit(WriterCloseMethod(World, w), "close", w)

WriterCloseWithErrorPropagation(w) ==
  /\ failed = "none"
  /\ writers[w].made
  /\ writers[w].owner
  /\ Commit(WritableStreamDefaultWriterCloseWithErrorPropagation(World, w),
            "closeWithErrorPropagation", w)

WriterAbort(w) ==
  /\ failed = "none"
  /\ writers[w].made
  /\ Commit(WriterAbortMethod(World, w), "abort", w)

WriterReleaseLock(w) ==
  /\ failed = "none"
  /\ writers[w].made
  /\ Commit(WriterReleaseLockMethod(World, w), "releaseLock", w)

ControllerError ==
  /\ failed = "none"
  /\ Commit(ControllerErrorMethod(World, "ControllerE"), "controller.error", 0)

StartFulfil ==
  /\ failed = "none"
  /\ sink.startPending
  /\ Commit(OnStartFulfilled([World EXCEPT !.sink.startPending = FALSE]),
            "start fulfilled", 0)

StartReject ==
  /\ failed = "none"
  /\ sink.startPending
  /\ Commit(OnStartRejected([World EXCEPT !.sink.startPending = FALSE], "StartE"),
            "start rejected", 0)

SinkWriteFulfil(k) ==
  /\ failed = "none"
  /\ k \in sink.writePending
  /\ Commit(OnSinkWriteFulfilled([World EXCEPT !.sink.writePending = @ \ {k},
                                               !.sink.fulfilled = @ \cup {k}]),
            "sink.write fulfilled", 0)

SinkWriteReject(k) ==
  /\ failed = "none"
  /\ k \in sink.writePending
  /\ Commit(OnSinkWriteRejected([World EXCEPT !.sink.writePending = @ \ {k}], "WriteE"),
            "sink.write rejected", 0)

SinkCloseFulfil ==
  /\ failed = "none"
  /\ sink.closePending > 0
  /\ Commit(WritableStreamFinishInflightClose(
              [World EXCEPT !.sink.closePending = @ - 1]),
            "sink.close fulfilled", 0)

SinkCloseReject ==
  /\ failed = "none"
  /\ sink.closePending > 0
  /\ Commit(WritableStreamFinishInflightCloseWithError(
              [World EXCEPT !.sink.closePending = @ - 1], "CloseE"),
            "sink.close rejected", 0)

SinkAbortFulfil(a) ==
  /\ failed = "none"
  /\ a \in sink.abortPending
  /\ Commit(SettleRequest([World EXCEPT !.sink.abortPending = @ \ {a}],
                          "abort", a, Resolved),
            "sink.abort fulfilled", 0)

SinkAbortReject(a) ==
  /\ failed = "none"
  /\ a \in sink.abortPending
  /\ Commit(SettleRequest([World EXCEPT !.sink.abortPending = @ \ {a}],
                          "abort", a, Rejected("AbortE")),
            "sink.abort rejected", 0)

Next ==
  \/ GetWriter
  \/ StreamAbort
  \/ \E w \in WriterIds, size \in SizeOutcomes : WriterWrite(w, size)
  \/ \E w \in WriterIds : WriterClose(w)
  \/ \E w \in WriterIds : WriterCloseWithErrorPropagation(w)
  \/ \E w \in WriterIds : WriterAbort(w)
  \/ \E w \in WriterIds : WriterReleaseLock(w)
  \/ ControllerError
  \/ StartFulfil
  \/ StartReject
  \/ \E k \in WriteIds : SinkWriteFulfil(k)
  \/ \E k \in WriteIds : SinkWriteReject(k)
  \/ SinkCloseFulfil
  \/ SinkCloseReject
  \/ \E a \in AbortIds : SinkAbortFulfil(a)
  \/ \E a \in AbortIds : SinkAbortReject(a)

Spec == Init /\ [][Next]_vars

\* ------------------------------------------------- the round-trip scenario
\* A producer that submits writes (with valid sizes) and then one close(),
\* handing the lock over at will, against a sink whose start, write and
\* close all fulfil; nobody aborts and nobody calls controller.error.
ProducerWrite(w, size) == promises.nClose = 0 /\ WriterWrite(w, size)

ProducerClose(w) == promises.nClose = 0 /\ WriterClose(w)

RoundTripNext ==
  \/ GetWriter
  \/ \E w \in WriterIds, size \in ChunkSizes : ProducerWrite(w, size)
  \/ \E w \in WriterIds : ProducerClose(w)
  \/ \E w \in WriterIds : WriterReleaseLock(w)
  \/ StartFulfil
  \/ \E k \in WriteIds : SinkWriteFulfil(k)
  \/ SinkCloseFulfil

\* Every settlement of a sink promise is eventually delivered to its callback.
SinkFairness ==
  /\ WF_vars(StartFulfil)
  /\ WF_vars(\E k \in WriteIds : SinkWriteFulfil(k))
  /\ WF_vars(SinkCloseFulfil)

RoundTripSpec == Init /\ [][RoundTripNext]_vars /\ SinkFairness

\* ================================================================== claims
Range(f) == {f[i] : i \in DOMAIN f}

TotalInFlightAtSink == Cardinality(sink.writePending) + sink.closePending

\* C1: in every reachable state at most one of inflightWriteRequest and
\* inflightCloseRequest is set, and the sink never has a write outstanding
\* together with another write or with a close.
C1_AtMostOneInflight ==
  /\ ~(stream.inflightWriteRequest # 0 /\ stream.inflightCloseRequest # 0)
  /\ TotalInFlightAtSink <= 1

\* C2: once a close() has been accepted, every later writer.write(x) returns
\* a rejected promise, adds no write request, enqueues no record and hands
\* nothing to sink.write.
C2_WriteAfterCloseRejected ==
  [][(promises.nClose > 0 /\ lastOp'.op = "write")
       => /\ lastOp'.res = "rejected"
          /\ promises'.nWrite = promises.nWrite
          /\ stream'.writeRequests = stream.writeRequests
          /\ controller'.queue = controller.queue
          /\ sink'.writes = sink.writes]_vars

\* C3: the chunks handed to sink.write are, in order, the first chunks
\* accepted by writer.write (chunk i is the i-th accepted write), none
\* skipped, duplicated or reordered, and only the chunk dispatched last can
\* still be unsettled at the sink.
C3_SerialDispatch ==
  /\ Len(sink.writes) <= promises.nWrite
  /\ \A i \in 1..Len(sink.writes) : sink.writes[i] = i
  /\ \A k \in sink.writePending : k = sink.writes[Len(sink.writes)]
  /\ \A i \in 1..(Len(sink.writes) - 1) :
       IsSettled(promises.write[sink.writes[i]])

\* Two chunks written through two different writers reached the sink in
\* submission order, the second after the first settled.
C3_Witness ==
  /\ sink.writes = <<1, 2>>
  /\ sink.writePending = {2}
  /\ stream.writer = 2
  /\ 1 \in sink.fulfilled

\* C4: sink.close is invoked at most once, only after every previously
\* accepted chunk's sink.write has fulfilled, and no sink.write is invoked
\* after sink.close has been invoked.
C4_CloseOnceAndLast ==
  [][/\ sink'.closeCalls <= 1
     /\ (sink'.closeCalls > sink.closeCalls
           => \A k \in 1..promises'.nWrite : k \in sink'.fulfilled)
     /\ (sink.closeCalls > 0 => sink'.writes = sink.writes)]_vars

\* C5: at most one writer is attached; stream._writer = w exactly when
\* w._ownerWritableStream = stream; getWriter() on a locked stream throws
\* and changes nothing; getWriter() on an unlocked stream attaches the new
\* writer whatever the stream state.
C5_LockUniqueness ==
  /\ [](/\ Cardinality({w \in WriterIds : writers[w].owner}) <= 1
        /\ \A w \in WriterIds : (stream.writer = w) <=> writers[w].owner)
  /\ [][lastOp'.op = "getWriter"
          => IF stream.writer # 0
             THEN /\ lastOp'.res = "threw"
                  /\ lastOp'.e = "TypeError"
                  /\ UNCHANGED <<stream, controller, writers, promises, sink, failed>>
             ELSE /\ lastOp'.res = "returned"
                  /\ stream'.writer = lastOp'.w
                  /\ writers'[lastOp'.w].owner
                  /\ failed' = "none"]_vars

\* A second writer was acquired on an errored stream after the first one
\* released its lock.
C5_Witness ==
  /\ lastOp.op = "getWriter"
  /\ lastOp.res = "returned"
  /\ stream.writer = 2
  /\ writers[1].made /\ ~writers[1].owner
  /\ stream.state = "errored"

\* C6: the state starts as writable; the only transitions are
\* writable -> closed and writable -> errored; closed and errored are never
\* left, and storedError is not overwritten once the state is errored.
C6_MonotoneTermination ==
  /\ stream.state = "writable"
  /\ [][/\ stream'.state \in {"writable", "closed", "errored"}
        /\ (stream.state # "writable" => stream'.state = stream.state)
        /\ (stream.state = "errored" => stream'.storedError = stream.storedError)]_vars

\* A sink write rejected after controller.error had errored the stream: the
\* state stayed errored and the stored error was kept.
C6_Witness ==
  /\ lastOp.op = "sink.write rejected"
  /\ stream.state = "errored"
  /\ stream.storedError = "ControllerE"
  /\ failed = "none"

\* C8 (as stated): immediately after any queue mutation (enqueue of a chunk,
\* enqueue of the close sentinel, dequeue after a fulfilled sink write) that
\* leaves the state writable with a writer attached, that writer's ready
\* promise is pending iff highWaterMark - total queue size <= 0.
C8_BackpressureAfterAnyMutation ==
  [][(/\ controller'.queue # controller.queue
      /\ stream'.state = "writable"
      /\ stream'.writer # 0)
       => (writers'[stream'.writer].ready.s = "pending"
             <=> controller'.strategyHWM - GetTotalQueueSize(controller'.queue) <= 0)]_vars

\* C8 (amended): the same, for the queue mutations made while no close()
\* has been accepted (enqueue of a chunk, dequeue after a fulfilled write).
C8_BackpressureBeforeClose ==
  [][(/\ controller'.queue # controller.queue
      /\ stream'.state = "writable"
      /\ stream'.writer # 0
      /\ promises'.nClose = 0)
       => (writers'[stream'.writer].ready.s = "pending"
             <=> controller'.strategyHWM - GetTotalQueueSize(controller'.queue) <= 0)]_vars

\* A dequeue after a fulfilled sink write took the queue below the
\* high-water mark and resolved the pending ready promise of the writer.
C8_Witness ==
  /\ lastOp.op = "sink.write fulfilled"
  /\ stream.state = "writable"
  /\ stream.writer # 0
  /\ promises.nClose = 0
  /\ controller.strategyHWM = 1
  /\ Len(controller.queue) = 1
  /\ controller.queue[1].size = 0
  /\ writers[stream.writer].ready.s = "resolved"
  /\ 2 \in sink.writePending

\* C9: when abort is called while a sink write is in flight (the abort is
\* recorded as pendingAbortRequest), the abort promise is not settled
\* before that sink write settles, and after an accepted abort nothing more
\* is handed to sink.write.
C9_AbortDeferredUntilWriteSettles ==
  [][/\ (/\ stream.pendingAbortRequest # 0
         /\ stream.inflightWriteRequest # 0
         /\ sink'.writePending = sink.writePending)
          => ~IsSettled(promises'.abort[stream.pendingAbortRequest])
     /\ (promises.nAbort > 0 => sink'.writes = sink.writes)]_vars

\* C10: when abort is called while a sink write is in flight, every write
\* request queued behind the in-flight write is rejected with the abort
\* error, whatever the outcome of the in-flight sink write.
C10_QueuedWritesRejectWithAbortError ==
  [][(stream.pendingAbortRequest # 0 /\ stream.inflightWriteRequest # 0)
       => \A k \in Range(stream.writeRequests) :
            promises'.write[k] \in {Pending, Rejected("Aborted")}]_vars

\* The position of a request promise in the order of settlement.
SettledAt(kind, id) ==
  CHOOSE i \in 1..Len(promises.order) : promises.order[i] = <<kind, id>>

\* The round trip is complete: the sink received the accepted chunks in
\* order and then one close, every write promise is resolved, the close
\* promise was resolved after all of them, the state is closed and an
\* attached writer's closed promise is resolved.
RoundTripDone ==
  /\ stream.state = "closed"
  /\ sink.writes = [i \in 1..promises.nWrite |-> i]
  /\ sink.fulfilled = 1..promises.nWrite
  /\ sink.closeCalls = 1
  /\ TotalInFlightAtSink = 0
  /\ \A k \in 1..promises.nWrite : promises.write[k] = Resolved
  /\ promises.close[1] = Resolved
  /\ \A k \in 1..promises.nWrite : SettledAt("write", k) < SettledAt("close", 1)
  /\ (stream.writer # 0 => writers[stream.writer].closed = Resolved)

\* A callback of a settled (or settling) sink promise can still run.
SinkCanSettle ==
  /\ failed = "none"
  /\ \/ sink.startPending
     \/ sink.writePending # {}
     \/ sink.closePending > 0

\* C7: in the round-trip scenario, once close() has been accepted the round
\* trip completes: at every moment either it is complete or a sink
\* settlement is still to be delivered (which fairness then delivers; the
\* scenario has finitely many of them).
C7_RoundTripCompletes ==
  promises.nClose > 0 => (RoundTripDone \/ SinkCanSettle)

\* C11: whenever abort is called (by the attached writer) while sink.close
\* is in flight, the abort is recorded; and when sink.close then fulfils, the
\* stream ends errored with the 'abort requested but closed successfully'
\* error, the abort and the close promise are resolved, the attached
\* writer's closed promise is rejected with the stored error, and sink.abort
\* has not been called.
C11_CloseRacingWithAbort ==
  [][/\ (/\ lastOp'.op = "abort"
         /\ writers[lastOp'.w].owner
         /\ stream.state = "writable"
         /\ stream.inflightCloseRequest # 0
         /\ stream.pendingAbortRequest = 0)
          => /\ lastOp'.res = "promise"
             /\ stream'.pendingAbortRequest # 0
     /\ (/\ lastOp'.op = "sink.close fulfilled"
         /\ stream.state = "writable"
         /\ stream.inflightCloseRequest # 0
         /\ stream.pendingAbortRequest # 0)
          => /\ failed' = "none"
             /\ stream'.state = "errored"
             /\ stream'.storedError = "AbortedButClosed"
             /\ promises'.abort[stream.pendingAbortRequest] = Resolved
             /\ promises'.close[stream.inflightCloseRequest] = Resolved
             /\ (stream'.writer # 0 =>
                   writers'[stream'.writer].closed = Rejected("AbortedButClosed"))
             /\ sink'.abortCalls = 0]_vars

\* The world of the next state, for reading a getter after a step.
WorldAfter ==
  [stream |-> stream', controller |-> controller', writers |-> writers',
   promises |-> promises', sink |-> sink', failed |-> failed',
   ret |-> [res |-> "returned", e |-> "none"]]

\* C12: if a sink write rejects with E while the stream is writable and no
\* abort is pending, the in-flight write promise rejects with E, the state
\* becomes errored with storedError = E, every queued write request and a
\* queued close request reject with E, the queue is emptied, the attached
\* writer's closed and ready promises are rejected with E and desiredSize
\* is null; and from then on nothing is dispatched to the sink.
C12_SinkWriteRejection ==
  [][/\ (/\ lastOp'.op = "sink.write rejected"
         /\ stream.state = "writable"
         /\ stream.pendingAbortRequest = 0)
          => /\ failed' = "none"
             /\ promises'.write[stream.inflightWriteRequest] = Rejected("WriteE")
             /\ stream'.state = "errored"
             /\ stream'.storedError = "WriteE"
             /\ \A k \in Range(stream.writeRequests) :
                  promises'.write[k] = Rejected("WriteE")
             /\ (stream.closeRequest # 0 =>
                   promises'.close[stream.closeRequest] = Rejected("WriteE"))
             /\ stream'.writeRequests = <<>>
             /\ stream'.closeRequest = 0
             /\ controller'.queue = <<>>
             /\ (stream'.writer # 0 =>
                   /\ writers'[stream'.writer].closed = Rejected("WriteE")
                   /\ writers'[stream'.writer].ready = Rejected("WriteE")
                   /\ WritableStreamDefaultWriterGetDesiredSize(WorldAfter) = "null")
             /\ sink'.writes = sink.writes
             /\ sink'.closeCalls = sink.closeCalls
             /\ sink'.abortCalls = sink.abortCalls
     /\ (stream.state = "errored" /\ stream.storedError = "WriteE")
          => /\ sink'.writes = sink.writes
             /\ sink'.closeCalls = sink.closeCalls
             /\ sink'.abortCalls = sink.abortCalls]_vars

\* C13: writer.close() called (by the attached writer) after an earlier
\* close() was accepted and while the state is still writable returns a
\* rejected promise and changes nothing, whether the first close is still
\* queued or already in flight at the sink.
C13_DuplicateCloseRejected ==
  [][(/\ lastOp'.op = "close"
      /\ writers[lastOp'.w].owner
      /\ promises.nClose > 0
      /\ stream.state = "writable")
       => /\ lastOp'.res = "rejected"
          /\ UNCHANGED <<stream, controller, writers, promises, sink, failed>>]_vars

\* Some promise returned by writer.write, writer.close or abort is pending.
RequestPending ==
  \/ \E k \in WriteIds : promises.write[k] = Pending
  \/ \E k \in CloseIds : promises.close[k] = Pending
  \/ \E k \in AbortIds : promises.abort[k] = Pending

\* Some sink operation (start, write, close, abort) has not settled yet.
SinkOperationOutstanding ==
  \/ sink.startPending
  \/ sink.writePending # {}
  \/ sink.closePending > 0
  \/ sink.abortPending # {}

\* C14: every request promise eventually settles, given that every sink
\* operation settles: there is no state in which a promise returned by
\* write, close or abort is pending while every sink operation has settled
\* (a run that stops calling the stream there leaves it pending forever).
C14_EveryRequestSettles == RequestPending => SinkOperationOutstanding

\* The assertions of the defaultWriter*Promise* helpers.
PromiseHelperAssertions ==
  {"defaultWriterClosedPromiseReject", "defaultWriterClosedPromiseResetToRejected",
   "defaultWriterClosedPromiseResolve", "defaultWriterReadyPromiseReject",
   "defaultWriterReadyPromiseReset", "defaultWriterReadyPromiseResetToRejected",
   "defaultWriterReadyPromiseResolve"}

\* C15: the code never tries to resolve or reject a writer's ready or closed
\* promise that is already settled, nor to reset one that is still pending:
\* no assertion of a defaultWriter*Promise* helper ever fails.
C15_NoPromiseSettledTwice == failed \notin PromiseHelperAssertions

\* C16: write promises settle in submission order.  For accepted writes
\* (numbered in submission order) a later one is never settled before an
\* earlier one; and a write() that returns an already rejected promise is
\* not made while an earlier write of the same writer is unsettled (stated
\* for the runs with a single writer, where every write is that writer's).
C16_WritesSettleInSubmissionOrder ==
  /\ [](\A k1, k2 \in WriteIds :
          (k1 < k2 /\ IsSettled(promises.write[k2]))
            => /\ IsSettled(promises.write[k1])
               /\ SettledAt("write", k1) < SettledAt("write", k2))
  /\ [][(/\ lastOp'.op = "write"
         /\ lastOp'.res = "rejected"
         /\ \A v \in WriterIds \ {lastOp'.w} : ~writers[v].made)
          => \A k \in WriteIds : promises.write[k] # Pending]_vars

\* C16 (amended): the promises of accepted writes (numbered in submission
\* order, whichever writer made them) settle in submission order: a later
\* one is never settled before an earlier one.
C16_AcceptedWritesSettleInOrder ==
  \A k1, k2 \in WriteIds :
    (k1 < k2 /\ IsSettled(promises.write[k2]))
      => /\ IsSettled(promises.write[k1])
         /\ SettledAt("write", k1) < SettledAt("write", k2)

\* Two accepted writes were settled in order: the first resolved by the
\* sink, the second, queued behind it, rejected by the abort that followed.
C16_Witness ==
  /\ promises.write[1] = Resolved
  /\ promises.write[2] = Rejected("Aborted")
  /\ promises.order[1] = <<"write", 1>>
  /\ promises.order[2] = <<"write", 2>>

\* C17: no sink.write and no sink.close is invoked before sink.start has
\* fulfilled; when start fulfils on a writable stream the head of the queue
\* is dispatched (the first accepted chunk, or the close if nothing was
\* written); if start rejects with r while the stream is writable, the
\* stream becomes errored with storedError = r, all queued requests reject
\* with r and nothing is dispatched; `started` never returns to false.
C17_StartGating ==
  /\ [](~controller.started => (sink.writes = <<>> /\ sink.closeCalls = 0))
  /\ [](sink.startPending => ~controller.started)
  /\ [][/\ (controller.started => controller'.started)
        /\ (lastOp'.op = "start fulfilled" /\ stream.state = "writable")
             => /\ failed' = "none"
                /\ controller'.started
                /\ IF controller.queue = <<>>
                   THEN sink'.writes = <<>> /\ sink'.closeCalls = 0
                   ELSE IF Head(controller.queue).value = CloseSentinel
                   THEN sink'.writes = <<>> /\ sink'.closeCalls = 1
                   ELSE sink'.writes = <<1>> /\ sink'.closeCalls = 0
        /\ (lastOp'.op = "start rejected" /\ stream.state = "writable")
             => /\ failed' = "none"
                /\ ~controller'.started
                /\ stream'.state = "errored"
                /\ stream'.storedError = "StartE"
                /\ \A k \in Range(stream.writeRequests) :
                     promises'.write[k] = Rejected("StartE")
                /\ (stream.closeRequest # 0 =>
                      promises'.close[stream.closeRequest] = Rejected("StartE"))
                /\ stream'.writeRequests = <<>>
                /\ stream'.closeRequest = 0
                /\ controller'.queue = <<>>]_vars

\* sink.start rejected while two writes and a close were queued: all three
\* requests were rejected with the start error and nothing reached the sink.
C17_Witness ==
  /\ lastOp.op = "start rejected"
  /\ promises.write[1] = Rejected("StartE")
  /\ promises.write[2] = Rejected("StartE")
  /\ promises.close[1] = Rejected("StartE")
  /\ stream.state = "errored"
  /\ sink.writes = <<>>
  /\ sink.closeCalls = 0

\* C18: sink.abort is invoked at most once, only as a consequence of an
\* accepted abort call, and never while a sink write or a sink close is
\* still in flight.
C18_SinkAbortOnceAndAlone ==
  /\ [](sink.abortCalls <= 1 /\ sink.abortCalls <= promises.nAbort)
  /\ [][sink'.abortCalls > sink.abortCalls
          => /\ sink'.writePending = {}
             /\ sink'.closePending = 0]_vars

\* C19: releaseLock by the attached writer leaves the stream's state,
\* storedError, queue, requests, in-flight slots, pendingAbortRequest and
\* backpressure unchanged; it only detaches the writer and rejects that
\* writer's ready and closed.  releaseLock on a released writer changes
\* nothing.  A write dispatched to the sink settles by the sink's outcome
\* whether or not a writer is attached, and a writer acquired on a writable
\* stream with no close or abort requested gets a pending closed promise
\* and a ready promise that is pending iff there is backpressure.
C19_ReleaseLockFrame ==
  [][/\ lastOp'.op = "releaseLock"
          => IF writers[lastOp'.w].owner
             THEN /\ failed' = "none"
                  /\ stream' = [stream EXCEPT !.writer = 0]
                  /\ writers' = [writers EXCEPT
                                   ![lastOp'.w].owner = FALSE,
                                   ![lastOp'.w].ready = Rejected("Released"),
                                   ![lastOp'.w].closed = Rejected("Released")]
                  /\ UNCHANGED <<controller, promises, sink>>
             ELSE UNCHANGED <<stream, controller, writers, promises, sink, failed>>
     /\ (lastOp'.op = "sink.write fulfilled" /\ stream.inflightWriteRequest # 0)
          => promises'.write[stream.inflightWriteRequest] = Resolved
     /\ (lastOp'.op = "sink.write rejected" /\ stream.inflightWriteRequest # 0)
          => promises'.write[stream.inflightWriteRequest] = Rejected("WriteE")
     /\ (/\ lastOp'.op = "getWriter"
         /\ lastOp'.res = "returned"
         /\ stream.state = "writable"
         /\ stream.pendingAbortRequest = 0
         /\ promises.nClose = 0)
          => /\ writers'[lastOp'.w].closed = Pending
             /\ (writers'[lastOp'.w].ready = Pending
                   <=> WritableStreamDefaultControllerGetDesiredSize(World) <= 0)
             /\ (writers'[lastOp'.w].ready # Pending
                   => writers'[lastOp'.w].ready = Resolved)]_vars

\* C20: a refused abort changes nothing.  Stream-level abort() on a locked
\* stream rejects; otherwise abort (stream-level, or by the attached writer)
\* resolves on a closed stream, rejects with storedError on an errored
\* stream and rejects while a pendingAbortRequest exists; in all four cases
\* no field of the stream, controller, writers or request promises changes
\* and sink.abort is not invoked.
C20_RefusedAbortChangesNothing ==
  [][/\ (lastOp'.op = "stream.abort" /\ stream.writer # 0)
          => /\ lastOp'.res = "rejected"
             /\ UNCHANGED <<stream, controller, writers, promises, sink, failed>>
     /\ (/\ \/ lastOp'.op = "stream.abort" /\ stream.writer = 0
            \/ lastOp'.op = "abort" /\ writers[lastOp'.w].owner
         /\ \/ stream.state \in {"closed", "errored"}
            \/ stream.pendingAbortRequest # 0)
          => /\ IF stream.state = "closed" THEN lastOp'.res = "resolved"
                ELSE IF stream.state = "errored"
                THEN lastOp'.res = "rejected" /\ lastOp'.e = stream.storedError
                ELSE lastOp'.res = "rejected"
             /\ UNCHANGED <<stream, controller, writers, promises, sink, failed>>]_vars

\* The attached writer called abort() while an earlier abort was waiting
\* for the in-flight sink write: the call was rejected.
C20_Witness ==
  /\ lastOp.op = "abort"
  /\ lastOp.res = "rejected"
  /\ stream.state = "writable"
  /\ stream.pendingAbortRequest # 0
  /\ stream.inflightWriteRequest # 0
  /\ stream.writer = lastOp.w

\* C21: an abort (stream-level on an unlocked stream, or by the attached
\* writer) on a writable stream with no abort pending and no sink write or
\* close in flight takes effect synchronously: the state becomes errored
\* with the abort error, every queued write request and a queued close
\* request are rejected with it, the attached writer's ready and closed are
\* rejected, the queue is emptied and sink.abort is invoked once; the
\* returned promise is resolved when sink.abort fulfils and rejected with
\* sink.abort's reason when it rejects.
C21_AbortWithNothingInFlight ==
  [][/\ (/\ \/ lastOp'.op = "stream.abort" /\ stream.writer = 0
            \/ lastOp'.op = "abort" /\ writers[lastOp'.w].owner
         /\ stream.state = "writable"
         /\ stream.pendingAbortRequest = 0
         /\ stream.inflightWriteRequest = 0
         /\ stream.inflightCloseRequest = 0)
          => /\ failed' = "none"
             /\ lastOp'.res = "promise"
             /\ stream'.state = "errored"
             /\ stream'.storedError = "Aborted"
             /\ \A k \in Range(stream.writeRequests) :
                  promises'.write[k] = Rejected("Aborted")
             /\ (stream.closeRequest # 0 =>
                   promises'.close[stream.closeRequest] = Rejected("Aborted"))
             /\ stream'.writeRequests = <<>>
             /\ stream'.closeRequest = 0
             /\ stream'.pendingAbortRequest = 0
             /\ (stream'.writer # 0 =>
                   /\ writers'[stream'.writer].ready = Rejected("Aborted")
                   /\ writers'[stream'.writer].closed = Rejected("Aborted"))
             /\ controller'.queue = <<>>
             /\ sink'.abortCalls = sink.abortCalls + 1
             /\ sink'.abortPending = sink.abortPending \cup {promises'.nAbort}
             /\ promises'.nAbort = promises.nAbort + 1
             /\ promises'.abort[promises'.nAbort] = Pending
             /\ sink'.writes = sink.writes
             /\ sink'.closeCalls = sink.closeCalls
     /\ \A a \in AbortIds :
          (a \in sink.abortPending /\ a \notin sink'.abortPending)
            => /\ promises.abort[a] = Pending
               /\ promises'.abort[a] =
                    IF lastOp'.op = "sink.abort fulfilled"
                    THEN Resolved ELSE Rejected("AbortE")]_vars

\* sink.abort, invoked by an abort made before sink.start settled and with
\* a write and a close queued, rejected: so did the abort promise.
C21_Witness ==
  /\ lastOp.op = "sink.abort rejected"
  /\ sink.startPending
  /\ promises.write[1] = Rejected("Aborted")
  /\ promises.close[1] = Rejected("Aborted")
  /\ promises.abort[1] = Rejected("AbortE")
  /\ sink.abortCalls = 1
  /\ sink.writes = <<>>

\* C22: in every reachable state where the stream is errored and no sink
\* write or close is in flight, writeRequests is empty, closeRequest and
\* pendingAbortRequest are absent, the controller queue is empty, and an
\* attached writer has both its ready and its closed promise rejected.
C22_ErrorPropagationComplete ==
  (/\ stream.state = "errored"
   /\ stream.inflightWriteRequest = 0
   /\ stream.inflightCloseRequest = 0)
    => /\ stream.writeRequests = <<>>
       /\ stream.closeRequest = 0
       /\ stream.pendingAbortRequest = 0
       /\ controller.queue = <<>>
       /\ (stream.writer # 0 =>
             /\ writers[stream.writer].ready.s = "rejected"
             /\ writers[stream.writer].closed.s = "rejected")

\* The chunk records in the controller's queue (the close sentinel apart).
ChunkRecords(queue) ==
  Cardinality({i \in 1..Len(queue) : queue[i].value # CloseSentinel})

\* The chunk records in the queue that have not been handed to sink.write.
AwaitingDispatch ==
  Cardinality({i \in 1..Len(controller.queue) :
                 /\ controller.queue[i].value # CloseSentinel
                 /\ controller.queue[i].value \notin Range(sink.writes)})

InflightWrites == IF stream.inflightWriteRequest # 0 THEN 1 ELSE 0

\* C23 (as stated): in every reachable state writeRequests.length equals the
\* number of enqueued chunk records still awaiting sink dispatch plus the
\* current in-flight write (zero or one).
C23_WriteRequestsCountInflight ==
  Len(stream.writeRequests) = AwaitingDispatch + InflightWrites

\* C23 (amended): while the state is writable, writeRequests.length equals
\* the number of enqueued chunk records still awaiting sink dispatch (the
\* request of the in-flight write has been moved out of writeRequests), and
\* writeRequests.length plus the in-flight write equals the number of chunk
\* records in the queue (the in-flight record stays queued until its sink
\* write fulfils).
C23_WriteRequestsAwaitDispatch ==
  stream.state = "writable"
    => /\ Len(stream.writeRequests) = AwaitingDispatch
       /\ Len(stream.writeRequests) + InflightWrites = ChunkRecords(controller.queue)

\* One write is in flight at the sink and a second one is queued behind it.
C23_Witness ==
  /\ stream.state = "writable"
  /\ stream.inflightWriteRequest = 1
  /\ stream.writeRequests = <<2>>
  /\ Len(controller.queue) = 2
  /\ sink.writePending = {1}

\* C24: controller.error(e) on a closed or errored stream throws and changes
\* nothing.  On a writable stream it sets state = errored and storedError =
\* e and empties the queue; with no sink operation in flight all pending
\* write and close requests are rejected with e at once; with one in flight
\* no request is settled by the call, and when that operation settles the
\* in-flight request reflects the sink's own outcome while the remaining
\* requests and a pending abort are rejected with e.
C24_ControllerError ==
  [][/\ (lastOp'.op = "controller.error" /\ stream.state # "writable")
          => /\ lastOp'.res = "threw"
             /\ lastOp'.e = "TypeError"
             /\ UNCHANGED <<stream, controller, writers, promises, sink, failed>>
     /\ (lastOp'.op = "controller.error" /\ stream.state = "writable")
          => /\ failed' = "none"
             /\ stream'.state = "errored"
             /\ stream'.storedError = "ControllerE"
             /\ controller'.queue = <<>>
             /\ IF stream.inflightWriteRequest = 0 /\ stream.inflightCloseRequest = 0
                THEN /\ \A k \in Range(stream.writeRequests) :
                          promises'.write[k] = Rejected("ControllerE")
                     /\ (stream.closeRequest # 0 =>
                           promises'.close[stream.closeRequest] = Rejected("ControllerE"))
                     /\ stream'.writeRequests = <<>>
                     /\ stream'.closeRequest = 0
                ELSE /\ promises' = promises
                     /\ stream'.writeRequests = stream.writeRequests
                     /\ stream'.closeRequest = stream.closeRequest
                     /\ stream'.pendingAbortRequest = stream.pendingAbortRequest
     /\ (/\ stream.state = "errored"
         /\ stream.storedError = "ControllerE"
         /\ lastOp'.op \in {"sink.write fulfilled", "sink.write rejected",
                            "sink.close fulfilled", "sink.close rejected"})
          => /\ failed' = "none"
             /\ (lastOp'.op = "sink.write fulfilled" =>
                   promises'.write[stream.inflightWriteRequest] = Resolved)
             /\ (lastOp'.op = "sink.write rejected" =>
                   promises'.write[stream.inflightWriteRequest] = Rejected("WriteE"))
             /\ (lastOp'.op = "sink.close fulfilled" =>
                   promises'.close[stream.inflightCloseRequest] = Resolved)
             /\ (lastOp'.op = "sink.close rejected" =>
                   promises'.close[stream.inflightCloseRequest] = Rejected("CloseE"))
             /\ \A k \in Range(stream.writeRequests) :
                  promises'.write[k] = Rejected("ControllerE")
             /\ (stream.closeRequest # 0 =>
                   promises'.close[stream.closeRequest] = Rejected("ControllerE"))
             /\ (stream.pendingAbortRequest # 0 =>
                   promises'.abort[stream.pendingAbortRequest] = Rejected("ControllerE"))
             /\ stream'.state = "errored"
             /\ stream'.storedError = "ControllerE"]_vars

\* C25: a writer is initialised from the stream's state: writable with a
\* pending abort, ready rejected (with storedError) and closed pending;
\* writable with no pending abort, backpressure and no close requested,
\* both pending; writable otherwise, ready resolved and closed pending;
\* closed, both resolved; errored, both rejected with storedError.  And the
\* stored backpressure flag is kept up to date while no writer is attached:
\* on a writable stream with no close or abort requested the new writer's
\* ready is pending exactly when highWaterMark - totalSize <= 0.
C25_WriterInitialisation ==
  [][(lastOp'.op = "getWriter" /\ lastOp'.res = "returned")
       => LET w == lastOp'.w
              ready == writers'[w].ready
              closed == writers'[w].closed
          IN /\ stream.state = "writable" /\ stream.pendingAbortRequest # 0
                  => ready = Rejected(stream.storedError) /\ closed = Pending
             /\ (/\ stream.state = "writable" /\ stream.pendingAbortRequest = 0
                 /\ stream.backpressure /\ stream.closeRequest = 0)
                  => ready = Pending /\ closed = Pending
             /\ (/\ stream.state = "writable" /\ stream.pendingAbortRequest = 0
                 /\ ~(stream.backpressure /\ stream.closeRequest = 0))
                  => ready = Resolved /\ closed = Pending
             /\ stream.state = "closed"
                  => ready = Resolved /\ closed = Resolved
             /\ stream.state = "errored"
                  => /\ ready = Rejected(stream.storedError)
                     /\ closed = Rejected(stream.storedError)
             /\ (/\ stream.state = "writable" /\ stream.pendingAbortRequest = 0
                 /\ stream.closeRequest = 0)
                  => (ready = Pending
                        <=> WritableStreamDefaultControllerGetDesiredSize(World) <= 0)]_vars

\* C26: the closed state is quiescent.  In every reachable state with
\* state = closed there is no in-flight write and no in-flight close, the
\* controller queue is empty, writeRequests is empty and closeRequest and
\* pendingAbortRequest are absent; and a settlement of sink.write never
\* finds the stream closed.
C26_ClosedIsQuiescent ==
  [][/\ stream'.state = "closed"
          => /\ stream'.inflightWriteRequest = 0
             /\ stream'.inflightCloseRequest = 0
             /\ controller'.queue = <<>>
             /\ stream'.writeRequests = <<>>
             /\ stream'.closeRequest = 0
             /\ stream'.pendingAbortRequest = 0
     /\ lastOp'.op \in {"sink.write fulfilled", "sink.write rejected"}
          => stream.state \in {"writable", "errored"}]_vars

\* C27: a pendingAbortRequest exists only while a sink write or a sink
\* close is in flight.  In every reachable state pendingAbortRequest
\* present implies inflightWriteRequest or inflightCloseRequest is set, and
\* the settlement of the in-flight operation clears pendingAbortRequest and
\* either settles the abort promise or hands it to sink.abort, whose
\* settlement it then follows.
C27_PendingAbortNeedsInflight ==
  /\ [](stream.pendingAbortRequest # 0
          => (stream.inflightWriteRequest # 0 \/ stream.inflightCloseRequest # 0))
  /\ [][(/\ stream.pendingAbortRequest # 0
         /\ lastOp'.op \in {"sink.write fulfilled", "sink.write rejected",
                            "sink.close fulfilled", "sink.close rejected"})
          => LET a == stream.pendingAbortRequest
             IN /\ stream'.pendingAbortRequest = 0
                /\ promises.abort[a] = Pending
                /\ \/ promises'.abort[a] # Pending /\ a \notin sink'.abortPending
                   \/ promises'.abort[a] = Pending /\ a \in sink'.abortPending]_vars

====
